---- MODULE Spec2Model ----
(***************************************************************************)
(* Model of frontend/src/App.js: the React component App, its state hooks, *)
(* the async functions fetchArticles and ingestArticles, the handlers      *)
(* handleSearch and handleFilterChange, the mount effect, and the backend  *)
(* calls in flight.                                                        *)
(*                                                                         *)
(* Strings are sequences of tokens.  A token is either a run of characters *)
(* that URL encoding leaves alone ("news", "hi", "left-leaning") or one    *)
(* character that it escapes (" ", "&", "=", "+", "%").  The empty string  *)
(* is <<>>, which is the only falsy string of JavaScript.                  *)
(***************************************************************************)
EXTENDS Integers, Sequences, FiniteSets, TLC

\* ------------------------------------------------------------------ bounds
MaxSearches == 4      \* fetchArticles invocations explored in one run
MaxIngests == 2       \* ingestArticles invocations explored in one run
MaxResults == 2       \* longest `results` array the backend returns

\* ------------------------------------------------------------- input sets
\* the backend's articles, best match first; a result list is a tail of it
Ranking == <<"C", "B", "A">>

Queries == {<<>>, <<"a", " ", "&", "b">>}

ErrorTexts == {<<"x">>, <<>>}

IndexedCounts == {5}

\* --------------------------------------------------------------- constants
EMPTY == <<>>

SEARCH_URL == <<"http://localhost:8000/articles/search", "?">>

SIZE == <<"20">>

FAILED_TO_INGEST == <<"Failed", " ", "to", " ", "ingest", " ", "articles">>

LanguageOptions == {EMPTY, <<"en">>, <<"hi">>}

SentimentOptions == {EMPTY, <<"positive">>, <<"neutral">>, <<"negative">>}

BiasOptions == {EMPTY, <<"neutral">>, <<"left-leaning">>, <<"right-leaning">>,
                <<"pro-government">>, <<"anti-government">>}

FilterTypes == {"language", "sentiment", "bias"}

\* the option values the explored user picks in the three selects
UserPicks == {<<>>, <<"hi">>, <<"negative">>}

Options(filterType) ==
  CASE filterType = "language" -> LanguageOptions
    [] filterType = "sentiment" -> SentimentOptions
    [] filterType = "bias" -> BiasOptions

InitialFilters == [language |-> EMPTY, sentiment |-> EMPTY, bias |-> EMPTY]

\* ------------------------------------------------- URLSearchParams, fetch
\* a serialiser that escapes nothing
EncodeTokenRaw(t) == t

\* application/x-www-form-urlencoded serialisation of one token
EncodeToken(t) ==
  CASE t = " " -> "+"
    [] t = "&" -> "%26"
    [] t = "=" -> "%3D"
    [] t = "+" -> "%2B"
    [] t = "%" -> "%25"
    [] OTHER -> t

EncodeString(s) == [i \in 1..Len(s) |-> EncodeToken(s[i])]

RECURSIVE ParamsToString(_)
\* URLSearchParams.prototype.toString: name=value pairs joined by "&"
ParamsToString(params) ==
  IF params = <<>> THEN <<>>
  ELSE LET head == <<params[1][1], "=">> \o EncodeString(params[1][2])
       IN IF Len(params) = 1 THEN head
          ELSE head \o <<"&">> \o ParamsToString(Tail(params))

\* the truthiness test `if (value)` on a string
Truthy(s) == s # EMPTY

\* params.append(name, value) guarded by `if (value)`
AppendIf(params, name, value) ==
  IF Truthy(value) THEN Append(params, <<name, value>>) ELSE params

\* lines 20-25 of fetchArticles
BuildParams(query, currentFilters) ==
  LET p0 == <<>>
      p1 == AppendIf(p0, "q", query)
      p2 == AppendIf(p1, "language", currentFilters.language)
      p3 == AppendIf(p2, "sentiment", currentFilters.sentiment)
      p4 == AppendIf(p3, "bias", currentFilters.bias)
  IN Append(p4, <<"size", SIZE>>)

\* the template string of line 29
SearchUrl(query, currentFilters) ==
  SEARCH_URL \o ParamsToString(BuildParams(query, currentFilters))

\* ------------------------------------------------------ backend responses
\* A response is what `await fetch(...)` followed by `await response.json()`
\* gives: kind "json" (a parsed body), "reject" (fetch rejected) or
\* "badjson" (response.json() rejected).
Min(a, b) == IF a < b THEN a ELSE b

LastOf(s, n) == SubSeq(s, Len(s) - n + 1, Len(s))

ResultLists == {LastOf(Ranking, n) : n \in 0..Min(MaxResults, Len(Ranking))}

NoSearchBody == [isNull |-> FALSE, hasResults |-> FALSE, results |-> <<>>]

SearchBodies ==
  {[isNull |-> FALSE, hasResults |-> TRUE, results |-> l] : l \in ResultLists}
    \cup {NoSearchBody}
    \cup {[isNull |-> TRUE, hasResults |-> FALSE, results |-> <<>>]}

NoSearchResponse == [kind |-> "none", body |-> NoSearchBody]

SearchResponses ==
  {[kind |-> "json", body |-> b] : b \in SearchBodies}
    \cup {[kind |-> k, body |-> NoSearchBody] : k \in {"reject", "badjson"}}

\* ingest status objects: {indexed: n}, {error: e}, {} and the body `null`
NullStatus ==
  [isNull |-> TRUE, hasError |-> FALSE, error |-> EMPTY,
   hasIndexed |-> FALSE, indexed |-> 0]

EmptyStatus == [NullStatus EXCEPT !.isNull = FALSE]

IndexedStatus(n) == [EmptyStatus EXCEPT !.hasIndexed = TRUE, !.indexed = n]

ErrorStatus(e) == [EmptyStatus EXCEPT !.hasError = TRUE, !.error = e]

IngestBodies ==
  {IndexedStatus(n) : n \in IndexedCounts}
    \cup {ErrorStatus(e) : e \in ErrorTexts}
    \cup {EmptyStatus, NullStatus}

NoIngestResponse == [kind |-> "none", body |-> NullStatus]

IngestResponses ==
  {[kind |-> "json", body |-> b] : b \in IngestBodies}
    \cup {[kind |-> k, body |-> NullStatus] : k \in {"reject", "badjson"}}

\* ------------------------------------------------------------------- state
VARIABLES
  articles,      \* useState([])            line 5
  loading,       \* useState(false)         line 6
  searchQuery,   \* useState("")            line 7
  filters,       \* useState({...})         lines 8-12
  ingesting,     \* useState(false)         line 13
  ingestStatus,  \* useState(null)          line 14
  mounted,       \* the mount effect of lines 94-97 has run
  inflight,      \* search requests issued at line 29 and not yet settled
  ingestCall,    \* the running ingestArticles invocation and its closure
  nSearches,     \* number of fetchArticles invocations so far
  nRequests,     \* number of fetch calls made at line 29 so far
  nIngests,      \* number of ingestArticles invocations so far
  event          \* the step just taken (observation only)

vars == <<articles, loading, searchQuery, filters, ingesting, ingestStatus,
          mounted, inflight, ingestCall, nSearches, nRequests, nIngests,
          event>>

IdleIngest ==
  [pc |-> "idle", id |-> 0, searchQuery |-> EMPTY, filters |-> InitialFilters,
   refresh |-> 0]

Event(type, req, searchResp, ingestResp) ==
  [type |-> type, req |-> req, searchResp |-> searchResp,
   ingestResp |-> ingestResp, hadArticles |-> (articles # <<>>),
   origin |-> "none", selection |-> InitialFilters, escaped |-> FALSE]

Init ==
  /\ articles = <<>>
  /\ loading = FALSE
  /\ searchQuery = EMPTY
  /\ filters = InitialFilters
  /\ ingesting = FALSE
  /\ ingestStatus = NullStatus
  /\ mounted = FALSE
  /\ inflight = {}
  /\ ingestCall = IdleIngest
  /\ nSearches = 0
  /\ nRequests = 0
  /\ nIngests = 0
  /\ event = Event("init", 0, NoSearchResponse, NoIngestResponse)

\* --------------------------------------------------------- fetchArticles
\* lines 17-29: the synchronous part of fetchArticles, up to the first await
FetchArticlesStart(query, currentFilters, origin) ==
  /\ loading' = TRUE
  /\ nSearches' = nSearches + 1
  /\ nRequests' = nRequests + 1
  /\ inflight' = inflight \cup
       {[id |-> nSearches + 1, query |-> query,
         currentFilters |-> currentFilters,
         url |-> SearchUrl(query, currentFilters), origin |-> origin]}

\* a try block that appends the returned list to the one shown
FetchArticlesTryMerges(resp) ==
  IF resp.kind # "json" \/ resp.body.isNull
  THEN [threw |-> TRUE, articles |-> articles]
  ELSE [threw |-> FALSE,
        articles |-> articles \o (IF resp.body.hasResults
                                  THEN resp.body.results ELSE <<>>)]

\* a try block with `data.results || articles`: the list shown stays when the
\* body has no results field
FetchArticlesTryKeepsOnMissing(resp) ==
  IF resp.kind # "json" \/ resp.body.isNull
  THEN [threw |-> TRUE, articles |-> articles]
  ELSE [threw |-> FALSE,
        articles |-> IF resp.body.hasResults THEN resp.body.results
                     ELSE articles]

\* lines 29-47: the try block after the awaits; threw = an exception was
\* raised (fetch rejected, json() rejected, or data.results read on null)
FetchArticlesTry(resp) ==
  IF resp.kind # "json" \/ resp.body.isNull
  THEN [threw |-> TRUE, articles |-> articles]
  ELSE [threw |-> FALSE,
        articles |-> IF resp.body.hasResults THEN resp.body.results ELSE <<>>]

\* a catch block that only logs
FetchArticlesCatchKeeps(try) == [escaped |-> FALSE, articles |-> try.articles]

\* a catch block that clears the list and throws the error again
FetchArticlesCatchRethrows(try) == [escaped |-> TRUE, articles |-> <<>>]

\* lines 48-51: the catch block
FetchArticlesCatch(try) == [escaped |-> FALSE, articles |-> <<>>]

\* line 52, reached unless an exception escaped the try/catch
FetchArticlesFinish(out) ==
  [escaped |-> out.escaped, articles |-> out.articles,
   loading |-> IF out.escaped THEN loading ELSE FALSE]

\* lines 29-52 as a whole: what the invocation leaves when its call settles
FetchArticlesSettle(resp) ==
  LET try == FetchArticlesTry(resp)
  IN FetchArticlesFinish(IF try.threw THEN FetchArticlesCatch(try)
                         ELSE [escaped |-> FALSE, articles |-> try.articles])

\* ------------------------------------------------------------ the UI gate
\* a component without the early return of lines 99-105: the controls stay
\* rendered while loading
ControlsRenderedAlways == mounted

\* lines 99-105: while loading the component renders only the placeholder,
\* so no control exists to click or type into; before the mount effect has
\* run no user event is delivered.
ControlsRendered == mounted /\ ~loading

\* an ingest button without the disabled attribute
IngestButtonEnabledAlways == ControlsRendered

\* line 113: the ingest button is disabled while ingesting
IngestButtonEnabled == ControlsRendered /\ ~ingesting

\* a refresh search that a running ingest may still issue keeps its slot
SearchBudget ==
  nSearches + (IF ingestCall.pc = "awaitIngest" THEN 1 ELSE 0) < MaxSearches

\* ---------------------------------------------------------------- actions
\* an effect without the [] dependency list: it runs after every render
MountEveryRender ==
  /\ SearchBudget
  /\ mounted' = TRUE
  /\ FetchArticlesStart(EMPTY, filters, "mount")
  /\ event' = [Event("mount", nSearches + 1, NoSearchResponse,
                     NoIngestResponse)
                 EXCEPT !.origin = "mount", !.selection = filters]
  /\ UNCHANGED <<articles, searchQuery, filters, ingesting, ingestStatus,
                 ingestCall, nIngests>>

\* lines 94-97: useEffect(() => fetchArticles(), []); the defaults of line 17
\* supply query = "" and currentFilters = filters
Mount ==
  /\ ~mounted
  /\ mounted' = TRUE
  /\ FetchArticlesStart(EMPTY, filters, "mount")
  /\ event' = [Event("mount", nSearches + 1, NoSearchResponse,
                     NoIngestResponse)
                 EXCEPT !.origin = "mount", !.selection = filters]
  /\ UNCHANGED <<articles, searchQuery, filters, ingesting, ingestStatus,
                 ingestCall, nIngests>>

\* a search-as-you-type input: onChange also calls fetchArticles
ChangeQueryTextLive(value) ==
  /\ ControlsRendered
  /\ SearchBudget
  /\ value # searchQuery
  /\ searchQuery' = value
  /\ FetchArticlesStart(value, filters, "search")
  /\ event' = Event("changeQuery", nSearches + 1, NoSearchResponse,
                    NoIngestResponse)
  /\ UNCHANGED <<articles, filters, ingesting, ingestStatus, mounted,
                 ingestCall, nIngests>>

\* line 134: onChange of the search input
ChangeQueryText(value) ==
  /\ ControlsRendered
  /\ value # searchQuery
  /\ searchQuery' = value
  /\ event' = Event("changeQuery", 0, NoSearchResponse, NoIngestResponse)
  /\ UNCHANGED <<articles, loading, filters, ingesting, ingestStatus, mounted,
                 inflight, ingestCall, nSearches, nRequests, nIngests>>

\* lines 80-83, called from lines 135 and 137
HandleSearch ==
  /\ ControlsRendered
  /\ SearchBudget
  /\ FetchArticlesStart(searchQuery, filters, "search")
  /\ event' = [Event("search", nSearches + 1, NoSearchResponse,
                     NoIngestResponse)
                 EXCEPT !.origin = "search", !.selection = filters]
  /\ UNCHANGED <<articles, searchQuery, filters, ingesting, ingestStatus,
                 mounted, ingestCall, nIngests>>

\* a handler that builds the new selection without spreading the old one
NewFiltersReset(filterType, value) == [InitialFilters EXCEPT ![filterType] = value]

\* line 87
NewFilters(filterType, value) == [filters EXCEPT ![filterType] = value]

\* lines 86-91, called from lines 143, 152 and 162
HandleFilterChange(filterType, value) ==
  /\ ControlsRendered
  /\ SearchBudget
  /\ value # filters[filterType]
  /\ filters' = NewFilters(filterType, value)
  /\ FetchArticlesStart(searchQuery, NewFilters(filterType, value), "filter")
  /\ event' = [Event("changeFilter", nSearches + 1, NoSearchResponse,
                     NoIngestResponse)
                 EXCEPT !.origin = "filter",
                        !.selection = NewFilters(filterType, value)]
  /\ UNCHANGED <<articles, searchQuery, ingesting, ingestStatus, mounted,
                 ingestCall, nIngests>>

\* line 70: `await fetchArticles(...)`; r is the search ingestArticles waits for
Awaited(r) == ingestCall.pc = "awaitRefresh" /\ ingestCall.refresh = r.id

\* a catch block that only logs
IngestCatchStatusKeeps == ingestStatus

\* line 74: the status set by the catch block of ingestArticles
IngestCatchStatus == ErrorStatus(FAILED_TO_INGEST)

\* an ingestArticles that never resets the flag
IngestingAtEndStuck == TRUE

\* line 76: the value handed to setIngesting at the end of ingestArticles
IngestingAtEnd == FALSE

\* a fetchArticles that calls fetch once more when the first call rejects
SearchSettlesRetries(r, resp) ==
  LET out == FetchArticlesSettle(resp)
  IN IF resp.kind = "reject" /\ nRequests = nSearches
     THEN /\ r \in inflight
          /\ nRequests' = nRequests + 1
          /\ event' = [Event("searchSettled", r.id, resp, NoIngestResponse)
                         EXCEPT !.origin = r.origin,
                                !.selection = r.currentFilters]
          /\ UNCHANGED <<articles, loading, searchQuery, filters, ingesting,
                         ingestStatus, mounted, inflight, ingestCall,
                         nSearches, nIngests>>
     ELSE /\ r \in inflight
          /\ inflight' = inflight \ {r}
          /\ articles' = out.articles
          /\ loading' = out.loading
          /\ IF Awaited(r)
             THEN /\ ingestStatus' = IF out.escaped THEN IngestCatchStatus
                                     ELSE ingestStatus
                  /\ ingesting' = IngestingAtEnd
                  /\ ingestCall' = IdleIngest
             ELSE UNCHANGED <<ingestStatus, ingesting, ingestCall>>
          /\ event' = [Event("searchSettled", r.id, resp, NoIngestResponse)
                         EXCEPT !.origin = r.origin, !.escaped = out.escaped,
                                !.selection = r.currentFilters]
          /\ UNCHANGED <<searchQuery, filters, mounted, nSearches, nRequests,
                         nIngests>>

\* a fetchArticles with request fencing: the response of a request that is
\* not the latest issued is discarded
SearchSettlesFenced(r, resp) ==
  LET out == FetchArticlesSettle(resp)
  IN /\ r \in inflight
     /\ inflight' = inflight \ {r}
     /\ articles' = IF r.id = nSearches THEN out.articles ELSE articles
     /\ loading' = out.loading
     /\ IF Awaited(r)
        THEN /\ ingestStatus' = IF out.escaped THEN IngestCatchStatus
                                ELSE ingestStatus
             /\ ingesting' = IngestingAtEnd
             /\ ingestCall' = IdleIngest
        ELSE UNCHANGED <<ingestStatus, ingesting, ingestCall>>
     /\ event' = [Event("searchSettled", r.id, resp, NoIngestResponse)
                    EXCEPT !.origin = r.origin, !.escaped = out.escaped,
                           !.selection = r.currentFilters]
     /\ UNCHANGED <<searchQuery, filters, mounted, nSearches, nRequests,
                    nIngests>>

\* the search request r settles with response resp: lines 29-52, and, when r
\* is the refresh awaited at line 70, the rest of ingestArticles (lines 72-76)
SearchSettles(r, resp) ==
  LET out == FetchArticlesSettle(resp)
  IN /\ r \in inflight
     /\ inflight' = inflight \ {r}
     /\ articles' = out.articles
     /\ loading' = out.loading
     /\ IF Awaited(r)
        THEN /\ ingestStatus' = IF out.escaped THEN IngestCatchStatus
                                ELSE ingestStatus
             /\ ingesting' = IngestingAtEnd
             /\ ingestCall' = IdleIngest
        ELSE UNCHANGED <<ingestStatus, ingesting, ingestCall>>
     /\ event' = [Event("searchSettled", r.id, resp, NoIngestResponse)
                    EXCEPT !.origin = r.origin, !.escaped = out.escaped,
                           !.selection = r.currentFilters]
     /\ UNCHANGED <<searchQuery, filters, mounted, nSearches, nRequests,
                    nIngests>>

\* the backend answers a search with a body that parses as JSON
SearchResponds(r, body) == SearchSettles(r, [kind |-> "json", body |-> body])

\* fetch rejects (kind "reject") or response.json() rejects (kind "badjson")
SearchFails(r, kind) == SearchSettles(r, [kind |-> kind, body |-> NoSearchBody])

\* lines 56-61: click on the ingest button; the closure keeps the searchQuery
\* and filters of the render the click was made on
IngestArticles ==
  /\ IngestButtonEnabled
  /\ nIngests < MaxIngests
  /\ nSearches < MaxSearches
  /\ ingesting' = TRUE
  /\ ingestStatus' = NullStatus
  /\ nIngests' = nIngests + 1
  /\ ingestCall' = [pc |-> "awaitIngest", id |-> nIngests + 1,
                    searchQuery |-> searchQuery, filters |-> filters,
                    refresh |-> 0]
  /\ event' = Event("ingest", 0, NoSearchResponse, NoIngestResponse)
  /\ UNCHANGED <<articles, loading, searchQuery, filters, mounted, inflight,
                 nSearches, nRequests>>

\* an ingestArticles that refreshes whatever the status says
NoErrorAlways(data) == TRUE

\* line 68: `!data.error`
NoError(data) == ~(data.hasError /\ Truthy(data.error))

\* a refresh that reads the state of the latest render
RefreshArgsCurrent == [searchQuery |-> searchQuery, filters |-> filters]

\* the query and filters handed to fetchArticles at line 70
RefreshArgs == [searchQuery |-> ingestCall.searchQuery,
                filters |-> ingestCall.filters]

\* an ingestArticles that empties the list itself
ArticlesAfterIngestCleared(resp) == <<>>

\* lines 56-77 hold no setArticles: ingestArticles leaves articles alone
ArticlesAfterIngest(resp) == articles

\* an ingestArticles that calls fetchArticles at line 70 without `await`: it
\* goes on to line 76 while the refresh search is in flight
IngestSettlesNoAwait(resp) ==
  LET threw == resp.kind # "json" \/ resp.body.isNull
      data == resp.body
  IN /\ ingestCall.pc = "awaitIngest"
     /\ IF threw
        THEN /\ ingestStatus' = IngestCatchStatus
             /\ UNCHANGED <<loading, inflight, nSearches, nRequests>>
        ELSE /\ ingestStatus' = data
             /\ IF NoError(data)
                THEN FetchArticlesStart(RefreshArgs.searchQuery,
                                        RefreshArgs.filters, "ingest")
                ELSE UNCHANGED <<loading, inflight, nSearches, nRequests>>
     /\ ingesting' = IngestingAtEnd
     /\ ingestCall' = IdleIngest
     /\ event' = [Event("ingestSettled",
                        IF ~threw /\ NoError(data) THEN nSearches + 1 ELSE 0,
                        NoSearchResponse, resp)
                    EXCEPT !.origin = "ingest",
                           !.selection = IF ~threw /\ NoError(data)
                                         THEN RefreshArgs.filters
                                         ELSE InitialFilters]
     /\ articles' = ArticlesAfterIngest(resp)
     /\ UNCHANGED <<searchQuery, filters, mounted, nIngests>>

\* lines 61-76 once the ingest call has settled
IngestSettles(resp) ==
  LET threw == resp.kind # "json" \/ resp.body.isNull
      data == resp.body
  IN /\ ingestCall.pc = "awaitIngest"
     /\ IF threw
        THEN \* lines 72-76
             /\ ingestStatus' = IngestCatchStatus
             /\ ingesting' = IngestingAtEnd
             /\ ingestCall' = IdleIngest
             /\ UNCHANGED <<loading, inflight, nSearches, nRequests>>
        ELSE /\ ingestStatus' = data
             /\ IF NoError(data)
                THEN \* lines 68-70: suspended on the refresh search
                     /\ FetchArticlesStart(RefreshArgs.searchQuery,
                                           RefreshArgs.filters, "ingest")
                     /\ ingestCall' = [ingestCall EXCEPT
                                         !.pc = "awaitRefresh",
                                         !.refresh = nSearches + 1]
                     /\ UNCHANGED ingesting
                ELSE \* line 76
                     /\ ingesting' = IngestingAtEnd
                     /\ ingestCall' = IdleIngest
                     /\ UNCHANGED <<loading, inflight, nSearches, nRequests>>
     /\ event' = [Event("ingestSettled",
                        IF ~threw /\ NoError(data) THEN nSearches + 1 ELSE 0,
                        NoSearchResponse, resp)
                    EXCEPT !.origin = "ingest",
                           !.selection = IF ~threw /\ NoError(data)
                                         THEN RefreshArgs.filters
                                         ELSE InitialFilters]
     /\ articles' = ArticlesAfterIngest(resp)
     /\ UNCHANGED <<searchQuery, filters, mounted, nIngests>>

\* the backend answers the ingest call with a body that parses as JSON
IngestResponds(body) == IngestSettles([kind |-> "json", body |-> body])

\* the ingest fetch rejects or its body does not parse
IngestFails(kind) == IngestSettles([kind |-> kind, body |-> NullStatus])

Next ==
  \/ Mount
  \/ \E value \in Queries : ChangeQueryText(value)
  \/ HandleSearch
  \/ \E filterType \in FilterTypes :
       \E value \in Options(filterType) \cap UserPicks :
       HandleFilterChange(filterType, value)
  \/ \E r \in inflight : \E body \in SearchBodies : SearchResponds(r, body)
  \/ \E r \in inflight : \E kind \in {"reject", "badjson"} : SearchFails(r, kind)
  \/ IngestArticles
  \/ \E body \in IngestBodies : IngestResponds(body)
  \/ \E kind \in {"reject", "badjson"} : IngestFails(kind)

Spec == Init /\ [][Next]_vars

\* every backend call that was issued eventually settles
Fairness ==
  /\ WF_vars(\E resp \in IngestResponses : IngestSettles(resp))
  /\ WF_vars(\E r \in inflight : \E resp \in SearchResponses :
               SearchSettles(r, resp))

\* The liveness check explores the same actions over fewer input values: the
\* user touches the language select only and the backend returns at most one
\* article.  Which values travel does not decide whether a call settles.
LiveInputs ==
  /\ filters.sentiment = EMPTY
  /\ Len(articles) <= 1

LiveNext ==
  \/ Mount /\ LiveInputs'
  \/ \E value \in Queries : ChangeQueryText(value) /\ LiveInputs'
  \/ HandleSearch /\ LiveInputs'
  \/ \E filterType \in FilterTypes :
       \E value \in Options(filterType) \cap UserPicks :
         HandleFilterChange(filterType, value) /\ LiveInputs'
  \/ \E r \in inflight : \E body \in SearchBodies :
       SearchResponds(r, body) /\ LiveInputs'
  \/ \E r \in inflight : \E kind \in {"reject", "badjson"} :
       SearchFails(r, kind) /\ LiveInputs'
  \/ IngestArticles /\ LiveInputs'
  \/ \E body \in IngestBodies : IngestResponds(body) /\ LiveInputs'
  \/ \E kind \in {"reject", "badjson"} : IngestFails(kind) /\ LiveInputs'

FairSpec == Init /\ [][LiveNext]_vars /\ Fairness

TypeOK ==
  /\ articles \in ResultLists
  /\ loading \in BOOLEAN
  /\ searchQuery \in Queries
  /\ filters \in [language : LanguageOptions, sentiment : SentimentOptions,
                  bias : BiasOptions]
  /\ ingesting \in BOOLEAN
  /\ mounted \in BOOLEAN
  /\ nSearches \in 0..MaxSearches
  /\ nRequests \in 0..MaxSearches
  /\ nIngests \in 0..MaxIngests
  /\ ingestCall.pc \in {"idle", "awaitIngest", "awaitRefresh"}

\* ------------------------------------------- reading a request off the URL
\* What the receiver of the request sees: the part after "?" split at "&",
\* each piece split at its first "=", the value unescaped.
DecodeToken(t) ==
  CASE t = "+" -> " "
    [] t = "%26" -> "&"
    [] t = "%3D" -> "="
    [] t = "%2B" -> "+"
    [] t = "%25" -> "%"
    [] OTHER -> t

DecodeString(s) == [i \in 1..Len(s) |-> DecodeToken(s[i])]

FirstIndex(s, t) ==
  IF \E i \in 1..Len(s) : s[i] = t
  THEN CHOOSE i \in 1..Len(s) : s[i] = t /\ \A j \in 1..(i - 1) : s[j] # t
  ELSE 0

RECURSIVE SplitAt(_, _)
SplitAt(s, t) ==
  LET i == FirstIndex(s, t)
  IN IF i = 0 THEN <<s>>
     ELSE <<SubSeq(s, 1, i - 1)>> \o SplitAt(SubSeq(s, i + 1, Len(s)), t)

ParsePair(piece) ==
  LET i == FirstIndex(piece, "=")
  IN IF i = 0 THEN <<piece, EMPTY>>
     ELSE <<SubSeq(piece, 1, i - 1),
            DecodeString(SubSeq(piece, i + 1, Len(piece)))>>

ParseQuery(url) ==
  LET query == SubSeq(url, Len(SEARCH_URL) + 1, Len(url))
      pieces == SplitAt(query, "&")
  IN IF query = <<>> THEN <<>>
     ELSE [i \in 1..Len(pieces) |-> ParsePair(pieces[i])]

\* the values a parameter list holds under `name`
ValuesIn(params, name) ==
  {params[i][2] : i \in {j \in 1..Len(params) : params[j][1] = <<name>>}}

\* the values the request carries under the parameter `name`
ValuesOf(url, name) == ValuesIn(ParseQuery(url), name)

\* the list carries `name` exactly when value is non-empty, with that value
CarriesIffNonEmpty(params, name, value) ==
  ValuesIn(params, name) = IF value = EMPTY THEN {} ELSE {value}

\* the request is the one for this query and this FilterSelection
RequestFor(url, query, selection) ==
  LET params == ParseQuery(url)
  IN /\ SubSeq(url, 1, Len(SEARCH_URL)) = SEARCH_URL
     /\ CarriesIffNonEmpty(params, "q", query)
     /\ CarriesIffNonEmpty(params, "language", selection.language)
     /\ CarriesIffNonEmpty(params, "sentiment", selection.sentiment)
     /\ CarriesIffNonEmpty(params, "bias", selection.bias)
     /\ ValuesIn(params, "size") = {<<"20">>}
     /\ \A i \in 1..Len(params) :
          params[i][1] \in
            {<<"q">>, <<"language">>, <<"sentiment">>, <<"bias">>, <<"size">>}
     /\ Len(params) =
          Cardinality({n \in {"q", "language", "sentiment", "bias", "size"} :
                         ValuesIn(params, n) # {}})

SearchFailed == event.type = "searchSettled"
                  /\ event.searchResp.kind \in {"reject", "badjson"}

SearchSucceeded == event.type = "searchSettled"
                     /\ event.searchResp.kind = "json"
                     /\ ~event.searchResp.body.isNull

\* ------------------------------------------------------------------ claims
\* C1: when the backend call of a search fails (fetch rejects or the body
\* does not parse), the finished invocation leaves results empty and loading
\* false, whatever results held before, and no error reaches the caller: the
\* ingest that awaited it does not run its catch block.
C1_FailedSearchClears ==
  SearchFailed =>
    /\ articles = <<>>
    /\ loading = FALSE
    /\ ~event.escaped
    /\ event.origin = "ingest" => ingestStatus # ErrorStatus(FAILED_TO_INGEST)

C1_Witness ==
  /\ SearchFailed
  /\ event.hadArticles
  /\ articles = <<>>

\* C2: when the backend call of a search succeeds, results is replaced by the
\* returned results array in the same order, not merged with the old list, and
\* by the empty sequence when the body has no results field; loading is false.
C2_SuccessfulSearchReplaces ==
  SearchSucceeded =>
    /\ articles = IF event.searchResp.body.hasResults
                  THEN event.searchResp.body.results
                  ELSE <<>>
    /\ loading = FALSE

C2_Witness ==
  /\ SearchSucceeded
  /\ event.hadArticles
  /\ event.searchResp.body.results = <<"B", "A">>
  /\ articles = <<"B", "A">>

C4_ChangeFilterFrame ==
  [][event'.type = "changeFilter" =>
       /\ Cardinality({f \in FilterTypes : filters'[f] # filters[f]}) = 1
       /\ searchQuery' = searchQuery
       /\ nSearches' = nSearches + 1
       /\ \E r \in inflight' \ inflight :
            /\ inflight' = inflight \cup {r}
            /\ RequestFor(r.url, searchQuery, filters')]_vars

C4_Witness ==
  /\ event.type = "changeFilter"
  /\ searchQuery # EMPTY
  /\ filters = [language |-> <<"hi">>, sentiment |-> <<"negative">>,
                bias |-> EMPTY]
  /\ \E r \in inflight :
       /\ r.id = event.req
       /\ ValuesOf(r.url, "language") = {<<"hi">>}
       /\ ValuesOf(r.url, "sentiment") = {<<"negative">>}
       /\ ValuesOf(r.url, "q") = {searchQuery}

IngestAnswered(e) == e.type = "ingestSettled" /\ e.ingestResp.kind = "json"
                       /\ ~e.ingestResp.body.isNull

IngestTransportFailed(e) == e.type = "ingestSettled"
                              /\ e.ingestResp.kind \in {"reject", "badjson"}

\* C5: when the ingest call returns a status object without an error field,
\* ingestStatus becomes that object and exactly one more search is issued, for
\* the query string and the selection that were current when ingest was
\* invoked, also when the user changed them while the call was in flight.
C5_IngestSuccessRefreshes ==
  [][/\ event'.type = "ingest" =>
          /\ ingestCall'.searchQuery = searchQuery
          /\ ingestCall'.filters = filters
     /\ ingestCall.pc # "idle" /\ ingestCall'.pc # "idle" =>
          /\ ingestCall'.searchQuery = ingestCall.searchQuery
          /\ ingestCall'.filters = ingestCall.filters
     /\ IngestAnswered(event') /\ ~event'.ingestResp.body.hasError =>
          /\ ingestStatus' = event'.ingestResp.body
          /\ nSearches' = nSearches + 1
          /\ \E r \in inflight' \ inflight :
               /\ inflight' = inflight \cup {r}
               /\ RequestFor(r.url, ingestCall.searchQuery,
                             ingestCall.filters)]_vars

C5_Witness ==
  /\ IngestAnswered(event)
  /\ ~event.ingestResp.body.hasError
  /\ ingestStatus = IndexedStatus(5)
  /\ ingestCall.searchQuery # searchQuery
  /\ ingestCall.filters # filters
  /\ \E r \in inflight :
       /\ r.id = event.req
       /\ RequestFor(r.url, ingestCall.searchQuery, ingestCall.filters)
       /\ ~RequestFor(r.url, searchQuery, filters)

\* what C6 and C7 say of an ingest that ends without a refresh
EndsWithoutRefresh ==
  /\ nSearches' = nSearches
  /\ inflight' = inflight
  /\ articles' = articles
  /\ ingesting' = FALSE

C7_IngestTransportFailure ==
  [][IngestTransportFailed(event') =>
       /\ ingestStatus' = ErrorStatus(FAILED_TO_INGEST)
       /\ EndsWithoutRefresh]_vars

C7_Witness ==
  /\ IngestTransportFailed(event)
  /\ ingestStatus = ErrorStatus(FAILED_TO_INGEST)
  /\ articles # <<>>
  /\ ~ingesting
  /\ inflight = {}

\* C8: provided every backend call it issued settles, every ingest invocation
\* sets ingesting back to false, whatever the outcome.
C8_IngestingEventuallyFalse == ingesting ~> ~ingesting

C8_Witness ==
  /\ SearchFailed
  /\ event.origin = "ingest"
  /\ nIngests > 0
  /\ ~ingesting

\* C9: results changes only in a step that settles a search request; the
\* start of an ingest and the arrival or failure of its response leave it
\* unchanged.
C9_OnlySearchWritesResults ==
  [][/\ articles' # articles =>
          /\ event'.type = "searchSettled"
          /\ \E r \in inflight : inflight' = inflight \ {r}
     /\ event'.type \in {"ingest", "ingestSettled"} =>
          articles' = articles]_vars

C9_Witness ==
  /\ IngestAnswered(event)
  /\ ingestCall.pc = "awaitRefresh"
  /\ articles # <<>>

\* C10: on mount exactly one search is issued, before any user action, for an
\* empty query and an empty selection, so its request carries size=20 only;
\* when the backend answers it with n articles, results has length n and
\* loading is false.
C10_MountSearch ==
  /\ [](~mounted => nSearches = 0 /\ event.type = "init")
  /\ [][event'.type = "mount" =>
          /\ ~mounted
          /\ nSearches = 0
          /\ nSearches' = 1
          /\ \E r \in inflight' :
               /\ inflight' = {r}
               /\ r.query = EMPTY
               /\ r.currentFilters = InitialFilters
               /\ ParseQuery(r.url) = << <<(<<"size">>), <<"20">> >> >>]_vars
  /\ [][(\E r \in inflight' \ inflight : r.origin = "mount") =>
          event'.type = "mount"]_vars
  /\ [](SearchSucceeded /\ event.origin = "mount"
          /\ event.searchResp.body.hasResults =>
            /\ Len(articles) = Len(event.searchResp.body.results)
            /\ loading = FALSE)

C10_Witness ==
  /\ SearchSucceeded
  /\ event.origin = "mount"
  /\ Len(event.searchResp.body.results) = 2
  /\ Len(articles) = 2
  /\ ~loading

\* what C11 says of the step that types into the search input
ChangeQueryTextFrame ==
  event'.type = "changeQuery" =>
    /\ searchQuery' # searchQuery
    /\ filters' = filters
    /\ articles' = articles
    /\ loading' = loading
    /\ ingesting' = ingesting
    /\ ingestStatus' = ingestStatus
    /\ inflight' = inflight
    /\ nSearches' = nSearches
    /\ nRequests' = nRequests

\* the step issues a search request that carries typed text as its q
IssuesTypedText == \E r \in inflight' \ inflight : r.query # EMPTY

\* C11 as stated: changeQueryText updates only the query string, issues no
\* backend request and leaves filters, results, loading, ingesting and
\* ingestStatus unchanged; a search carrying the typed text is issued only by
\* the explicit search action.
C11_Original ==
  [][/\ ChangeQueryTextFrame
     /\ IssuesTypedText => event'.type = "search"]_vars

\* C11 amended: changeQueryText updates only the query string, issues no
\* backend request and leaves filters, results, loading, ingesting and
\* ingestStatus unchanged; a search carrying the typed text is issued only by
\* a later operation that starts a search: the search action, changeFilter or
\* the refresh of a successful ingest.
C11_TypingIssuesNothing ==
  [][/\ ChangeQueryTextFrame
     /\ IssuesTypedText =>
          event'.type \in {"search", "changeFilter", "ingestSettled"}]_vars

C11_Witness ==
  /\ event.type = "changeQuery"
  /\ searchQuery = <<"a", " ", "&", "b">>
  /\ articles # <<>>
  /\ ingesting
  /\ \E r \in inflight : r.query = EMPTY

\* the outcome of a completed search request: its returned list, or the empty
\* sequence if it failed or its body had no results field
SearchOutcome(resp) ==
  IF resp.kind = "json" /\ ~resp.body.isNull /\ resp.body.hasResults
  THEN resp.body.results
  ELSE <<>>

\* C12: results is the outcome of the most recently completed search request
\* and the empty sequence before any search has completed: it is empty while
\* every issued request is still in flight, each completing request sets it to
\* its own outcome, whichever request was issued last, and no other step
\* changes it.
C12_ResultsOfLastCompleted ==
  /\ [](nSearches = Cardinality(inflight) => articles = <<>>)
  /\ [][IF event'.type = "searchSettled"
        THEN /\ \E r \in inflight : r.id = event'.req /\ inflight' = inflight \ {r}
             /\ articles' = SearchOutcome(event'.searchResp)
        ELSE articles' = articles]_vars

C12_Witness ==
  /\ event.type = "searchSettled"
  /\ event.req < nSearches
  /\ inflight = {}
  /\ event.hadArticles
  /\ event.searchResp.body.results = <<"A">>
  /\ articles = <<"A">>

\* C13: a changeFilter can be invoked while the search of an earlier
\* changeFilter is still in flight; it cancels nothing, so both requests are
\* in flight, and a request of a changeFilter that settles after the
\* selection has moved on still overwrites results with its own outcome,
\* leaving FilterSelection at the newer value.
C13_StaleFilterResponseOverwrites ==
  [][/\ event'.type = "changeFilter" =>
          /\ inflight \subseteq inflight'
          /\ Cardinality(inflight') = Cardinality(inflight) + 1
     /\ \A r \in inflight :
          /\ event'.type = "searchSettled"
          /\ inflight' = inflight \ {r}
          /\ r.origin = "filter"
          /\ r.currentFilters # filters
          => /\ articles' = SearchOutcome(event'.searchResp)
             /\ filters' = filters]_vars

\* the older changeFilter request resolved last: results holds its response
\* while FilterSelection holds the newer selection
C13_Witness ==
  /\ event.type = "searchSettled"
  /\ event.origin = "filter"
  /\ event.req < nSearches
  /\ event.selection # filters
  /\ event.selection.language = <<"hi">>
  /\ filters.sentiment = <<"negative">>
  /\ inflight = {}
  /\ event.searchResp.body.results = <<"B", "A">>
  /\ articles = <<"B", "A">>

\* C14: in every reachable state, if at least one search request is in
\* flight then loading is true, so the placeholder is rendered instead of the
\* article list, also when several searches overlap.
C14_LoadingWhileInFlight == inflight # {} => loading

\* C15: the refresh search that follows a successful ingest is issued with
\* the current query and filters: its query and its three filter values equal
\* searchQuery and filters as they are at the moment it is issued.
C15_RefreshUsesCurrent ==
  [][IngestAnswered(event') /\ nSearches' = nSearches + 1 =>
       \E r \in inflight' \ inflight :
         /\ r.origin = "ingest"
         /\ r.query = searchQuery'
         /\ r.currentFilters = filters'
         /\ RequestFor(r.url, searchQuery', filters')]_vars

\* the step invokes fetchArticles: mount, search action, changeFilter, or the
\* refresh of an ingest
InvokesSearch ==
  \/ event'.type \in {"mount", "search", "changeFilter"}
  \/ event'.type = "ingestSettled" /\ event'.req # 0

\* C16: each invocation of search issues exactly one backend request, also
\* when that request fails: the number of requests issued equals the number
\* of invocations, an invoking step adds one request, and a step that settles
\* a request, failed or not, issues none.
C16_OneRequestPerInvocation ==
  /\ [](nRequests = nSearches)
  /\ [][/\ InvokesSearch =>
             /\ nSearches' = nSearches + 1
             /\ nRequests' = nRequests + 1
             /\ inflight \subseteq inflight'
             /\ Cardinality(inflight') = Cardinality(inflight) + 1
        /\ ~InvokesSearch =>
             /\ nSearches' = nSearches
             /\ nRequests' = nRequests
             /\ inflight' \subseteq inflight
        /\ event'.type = "searchSettled" =>
             Cardinality(inflight') = Cardinality(inflight) - 1]_vars

C16_Witness ==
  /\ SearchFailed
  /\ event.searchResp.kind = "reject"
  /\ event.origin = "ingest"
  /\ inflight = {}
  /\ nSearches = 3
  /\ nRequests = 3

\* C17: a user-triggered search or changeFilter never starts while loading is
\* true, and as long as ingest has never been invoked at most one search
\* request is in flight.
C17_NoUserSearchWhileLoading ==
  /\ [][event'.type \in {"search", "changeFilter"} =>
          /\ ~loading
          /\ loading']_vars
  /\ [](nIngests = 0 => Cardinality(inflight) <= 1)

C17_Witness ==
  /\ event.type = "changeFilter"
  /\ nIngests = 0
  /\ nSearches = 4
  /\ Cardinality(inflight) = 1
  /\ loading

\* C18: at most one ingest invocation is active at any time: the ingest
\* action starts only while ingesting and loading are both false and no
\* earlier invocation is still running, and an invocation that is running
\* keeps ingesting true, so no second ingest request is issued before the
\* previous invocation has reset the flag.
C18_OneIngestAtATime ==
  /\ [][event'.type = "ingest" =>
          /\ ~ingesting
          /\ ~loading
          /\ ingestCall.pc = "idle"
          /\ ingestCall'.pc = "awaitIngest"
          /\ ingestCall'.id = nIngests + 1
          /\ nIngests' = nIngests + 1]_vars
  /\ [](ingesting <=> ingestCall.pc # "idle")

C18_Witness ==
  /\ event.type = "ingest"
  /\ nIngests = 2
  /\ ingestCall.id = 2
  /\ ingesting
  /\ ingestStatus = NullStatus

\* C19: while the refresh search started by an ingest invocation is in
\* flight, ingesting is still true and that invocation is suspended on it; the
\* flag is reset in the step that completes the refresh search.
C19_IngestingUntilRefreshDone ==
  /\ [](\A r \in inflight : r.origin = "ingest" =>
          /\ ingesting
          /\ ingestCall.pc = "awaitRefresh"
          /\ ingestCall.refresh = r.id)
  /\ [][ingestCall.pc = "awaitRefresh" /\ ingesting /\ ~ingesting' =>
          /\ event'.type = "searchSettled"
          /\ event'.req = ingestCall.refresh
          /\ \A r \in inflight' : r.origin # "ingest"]_vars

C19_Witness ==
  /\ ingesting
  /\ ~loading
  /\ ingestStatus = IndexedStatus(5)
  /\ event.type = "searchSettled"
  /\ event.origin = "filter"
  /\ \E r \in inflight : r.origin = "ingest" /\ r.id = ingestCall.refresh

\* the step settles the refresh search of an ingest with a failure: fetch or
\* json() rejected, or the body was null
RefreshFailed ==
  /\ event'.type = "searchSettled"
  /\ event'.origin = "ingest"
  /\ \/ event'.searchResp.kind \in {"reject", "badjson"}
     \/ event'.searchResp.body.isNull

\* C20: when the ingest call succeeded and the refresh search it triggered
\* fails, ingestStatus stays the success status the backend returned and is
\* not replaced by the synthetic error status, results becomes empty, and
\* loading and ingesting are both false afterwards.
C20_RefreshFailureAbsorbed ==
  /\ [](ingestCall.pc = "awaitRefresh" =>
          /\ ~ingestStatus.isNull
          /\ ~(ingestStatus.hasError /\ ingestStatus.error # EMPTY))
  /\ [][/\ event'.type = "ingestSettled" /\ event'.req # 0 =>
             ingestStatus' = event'.ingestResp.body
        /\ ingestCall.pc = "awaitRefresh" /\ ingestCall'.pc = "awaitRefresh" =>
             ingestStatus' = ingestStatus
        /\ RefreshFailed =>
             /\ ingestCall.pc = "awaitRefresh"
             /\ ingestStatus' = ingestStatus
             /\ ingestStatus' # ErrorStatus(FAILED_TO_INGEST)
             /\ articles' = <<>>
             /\ ~loading'
             /\ ~ingesting'
             /\ ~event'.escaped]_vars

C20_Witness ==
  /\ event.type = "searchSettled"
  /\ event.origin = "ingest"
  /\ event.searchResp.kind = "badjson"
  /\ event.hadArticles
  /\ ingestStatus = IndexedStatus(5)
  /\ articles = <<>>
  /\ ~loading
  /\ ~ingesting
  /\ ingestCall = IdleIngest

====
